---------------------------- MODULE Spec2Model ----------------------------
(***************************************************************************)
(* A model of the SMC-ABC sampler of pymc3/step_methods/smc_ABC.py: the    *)
(* stage loop of sample_smc_abc, the mutation kernel SMC_ABC.astep, the    *)
(* scheduler SMC_ABC.calc_beta / _calc_epsilon and the resampler           *)
(* SMC_ABC.resample.                                                       *)
(*                                                                         *)
(* Numbers.  The model has one free variable of dimension one; a chain     *)
(* position is an integer.  Tolerances (epsilon, minimum_eps, the fixed    *)
(* schedule) are held in units of 1/200, so that the quantiles of          *)
(* scipy's mquantiles (kept in hundredths of a position unit) times        *)
(* iqr_scale (kept in halves) stay integers.  A weight vector is held as   *)
(* its un-normalised numerators w; the weight of chain i is w[i] / Sum(w). *)
(* Arrays are functions on 0..n-1, as in the source; the caller's epsilon  *)
(* list is a sequence, read at index stage + 1.                            *)
(***************************************************************************)
EXTENDS Integers, Sequences, FiniteSets, TLC

(***************************************************************************)
(* Bounds of the model.                                                    *)
(***************************************************************************)
\* number of chains of the run (the argument `chains`)
Chains == 2
\* positions of the prior's support are 0..MaxPos
MaxPos == 3
\* the attempt budget of one mutation step; stands for range(5000)
AttemptBudget == 2
\* the largest n_steps a run is configured with
MaxNSteps == 1
\* the largest number of posterior samples requested
MaxSamples == 2
\* the longest caller-supplied epsilon list
MaxSchedule == 1
\* the stage loop is followed up to this stage number
MaxStage == 2
\* the uniform offset of resample is a multiple of 1/OffsetSteps
OffsetSteps == 2
\* the largest numerator of a weight given to resample on its own
MaxWeight == 6

\* the samples asked of the final stage beyond the number of chains
SamplesBeyond == 1
\* astep on its own: positions and perturbations are multiples of 1/Grain
Grain == 2
\* and the perturbations are at most MaxDelta / Grain in size
MaxDelta == 4

(***************************************************************************)
(* Program constants.                                                      *)
(***************************************************************************)
\* iqr_scale=0.5, in halves
IqrScaleHalves == 1
\* epsilon.set_value(1), in units of 1/200
ToleranceAtConstruction == 200

(***************************************************************************)
(* Arrays.                                                                 *)
(***************************************************************************)
Idx(n) == 0 .. (n - 1)

Size(a) == Cardinality(DOMAIN a)

RECURSIVE SumTo(_, _)
SumTo(a, n) == IF n = 0 THEN 0 ELSE a[n - 1] + SumTo(a, n - 1)

\* np.sum of an array
Sum(a) == SumTo(a, Size(a))

\* np.cumsum: element j is a[0] + ... + a[j]
CumSum(a) == [j \in DOMAIN a |-> SumTo(a, j + 1)]

\* element k (from 0) of np.sort(a)
SortedAt(a, k) ==
    CHOOSE v \in {a[i] : i \in DOMAIN a} :
        /\ Cardinality({i \in DOMAIN a : a[i] < v}) <= k
        /\ Cardinality({i \in DOMAIN a : a[i] <= v}) > k

Abs(x) == IF x < 0 THEN -x ELSE x


(***************************************************************************)
(* The model under the sampler: logp_forw, the proposal, the prior.        *)
(***************************************************************************)
\* the support of the prior: the positions where the log-density is finite
Support == 0 .. MaxPos

\* np.isfinite(logp_prior) for the value logp_forw gives at q
IsFinite(q) == q \in Support

\* the record logp_forw(q) returns (the out_vars at q), with the likelihood
\* entry already replaced by its exponential (lines 240 and 253)
LogpForw(q) == [q |-> q, llk |-> q + 1]

\* the perturbations proposal_dist(1)[0,0] can return
Deltas == {-1, 1}

\* the distance between the summary statistic simulated at q and the observed
\* one, in the units of epsilon: the simulator is the identity, the distance
\* the absolute difference, and the observation lies at position 0
Distance(q) == 200 * Abs(q)

\* what one attempt of astep draws
Proposal == [delta : Deltas]

(***************************************************************************)
(* _calc_epsilon (lines 612-635).                                          *)
(***************************************************************************)
\* scipy.stats.mstats.mquantiles at probability p100/100 with its default
\* alphap = betap = 0.4, in hundredths of a position unit
Quantile100(x, p100) ==
    LET n == Size(x)
        m100 == 40 + (20 * p100) \div 100
        aleph100 == n * p100 + m100
        k == IF aleph100 < 100 THEN 1
             ELSE IF aleph100 > 100 * (n - 1) THEN n - 1
             ELSE aleph100 \div 100
        g == aleph100 - 100 * k
        gamma100 == IF g < 0 THEN 0 ELSE IF g > 100 THEN 100 ELSE g
    IN  IF n = 1 THEN 100 * x[0]
        ELSE (100 - gamma100) * SortedAt(x, k - 1) + gamma100 * SortedAt(x, k)

\* a variant that reads the fixed schedule one element further
CalcEpsilonNextStage(eps, pop, iqr_scale, stg) ==
    IF eps.none
    THEN [err |-> "",
          val |-> Abs(Quantile100(pop, 75) - Quantile100(pop, 25)) * iqr_scale]
    ELSE IF stg + 2 \in DOMAIN eps.list
         THEN [err |-> "", val |-> eps.list[stg + 2]]
         ELSE [err |-> "IndexError", val |-> 0]

\* the value _calc_epsilon returns, in units of 1/200; err is "IndexError"
\* when the fixed schedule has no element at index stage
CalcEpsilon(eps, pop, iqr_scale, stg) ==
    IF eps.none
    THEN [err |-> "",
          val |-> Abs(Quantile100(pop, 75) - Quantile100(pop, 25)) * iqr_scale]
    ELSE IF stg + 1 \in DOMAIN eps.list
         THEN [err |-> "", val |-> eps.list[stg + 1]]
         ELSE [err |-> "IndexError", val |-> 0]

(***************************************************************************)
(* SMC_ABC.calc_covariance (lines 282-293): np.cov with aweights and       *)
(* bias=False, as the fraction num / den; nan when den is 0.               *)
(***************************************************************************)
CalcCovariance(x, w) ==
    LET W   == Sum(w)
        wx  == Sum([i \in DOMAIN x |-> w[i] * x[i]])
        wxx == Sum([i \in DOMAIN x |-> w[i] * x[i] * x[i]])
        ww  == Sum([i \in DOMAIN x |-> w[i] * w[i]])
        den == W * W - ww
    IN  IF W = 0 \/ den = 0
        THEN [err |-> "ValueError", num |-> 0, den |-> 0]
        ELSE [err |-> "", num |-> W * wxx - wx * wx, den |-> den]

(***************************************************************************)
(* SMC_ABC.resample (lines 362-392) on the weights w[i] / Sum(w) and the   *)
(* offset un / OffsetSteps.                                                *)
(***************************************************************************)
\* u[i] > cum_dist[j] (line 378); a comparison with nan is False
TargetAbove(w, un, i, j) ==
    /\ Sum(w) # 0
    /\ (i * OffsetSteps + un) * Sum(w) > CumSum(w)[j] * Size(w) * OffsetSteps

\* the while loop of lines 378-379: the index the walk stops at, from j;
\* Size(w) when it leaves the array
RECURSIVE WalkFrom(_, _, _, _)
WalkFrom(w, un, i, j) ==
    IF j >= Size(w) THEN j
    ELSE IF TargetAbove(w, un, i, j) THEN WalkFrom(w, un, i, j + 1)
    ELSE j

\* the for loop of lines 377-381, from slot i with the walk at j: N_childs,
\* and whether the walk left the array
RECURSIVE CountChilds(_, _, _, _, _)
CountChilds(w, un, i, j, N) ==
    IF i = Size(w) THEN [err |-> "", N_childs |-> N]
    ELSE LET j2 == WalkFrom(w, un, i, j)
         IN  IF j2 >= Size(w) THEN [err |-> "IndexError", N_childs |-> N]
             ELSE CountChilds(w, un, i + 1, j2, [N EXCEPT ![j2] = @ + 1])

\* the loops of lines 383-390: outindx from N_childs
RECURSIVE FillOutindx(_, _, _, _)
FillOutindx(N, i, indx, out) ==
    IF i = Size(N) THEN out
    ELSE FillOutindx(N, i + 1, indx + N[i],
             [s \in DOMAIN out |->
                 IF s >= indx /\ s < indx + N[i] THEN i ELSE out[s]])

Resample(w, un) ==
    LET zeros == [i \in DOMAIN w |-> 0]
        c == CountChilds(w, un, 0, 0, zeros)
    IN  IF c.err # "" THEN [err |-> c.err, outindx |-> zeros]
        ELSE [err |-> "", outindx |-> FillOutindx(c.N_childs, 0, 0, zeros)]


(***************************************************************************)
(* State.                                                                  *)
(***************************************************************************)
VARIABLES
    pc,                    \* the place sample_smc_abc has reached
    err,                   \* the exception that ended the run, "" for none
    unbound,               \* the attributes and locals not yet assigned
    \* the SMC_ABC object `step`
    epsilons,              \* step.epsilons: [none, list], the caller's list
    minimum_eps,           \* step.minimum_eps
    n_steps,               \* step.n_steps and step.n_steps_final
    stage,                 \* step.stage
    epsilon,               \* step.epsilon
    tolerance,             \* the shared variable distribution.epsilon
    population,            \* step.population
    array_population,      \* step.array_population
    likelihoods,           \* step.likelihoods
    weights,               \* step.weights, un-normalised numerators
    covariance,            \* step.covariance, [num, den]
    proposal_dist,         \* step.proposal_dist, the matrix it was built on
    resampling_indexes,    \* step.resampling_indexes
    chain_previous_lpoint, \* step.chain_previous_lpoint
    chain_index,           \* step.chain_index
    \* locals of sample_smc_abc and of _iter_parallel_chains
    draws,                 \* draws
    work,                  \* the work list: [start, chain] of the units not yet done
    mtrace,                \* mtrace: the end point [q, llk] of each chain
    \* the work unit being run
    unit,                  \* its chain_idx: the units done before it
    draw,                  \* the draws it has recorded
    point,                 \* its current point
    attempt,               \* the attempts the running astep has made
    traces,                \* the stage's trace files: [q, llk, n] per unit
    frame,                 \* the locals of the latest astep call
    offset,                \* np.random.rand() of the resample call that has
                           \* just returned, in steps of 1/OffsetSteps; 0 once
                           \* the next statement has run
    all_discrete           \* step.all_discrete

vars == <<pc, err, unbound, epsilons, minimum_eps, n_steps, stage,
          epsilon, tolerance, population, array_population, likelihoods,
          weights, covariance, proposal_dist, resampling_indexes,
          chain_previous_lpoint, chain_index, draws, work, mtrace, unit,
          draw, point, attempt, traces, frame, offset, all_discrete>>

\* the fields of `step` the stage loop owns
stepVars == <<epsilons, minimum_eps, n_steps, stage, epsilon,
              tolerance, population, array_population, likelihoods, weights,
              covariance, proposal_dist, resampling_indexes,
              chain_previous_lpoint, chain_index>>

\* the state of the running work unit
unitVars == <<work, unit, draw, point, attempt, traces, frame>>

Zeros(n) == [i \in Idx(n) |-> 0]

NoLpoint == [q |-> 0, llk |-> 0]

\* the locals of astep: q0, the latest q_prop, the passes of the for loop made,
\* whether astep has returned, whether the latest candidate was taken, q_new,
\* l_new, and the chain's entry of chain_previous_lpoint before the attempt
NoFrame == [q0 |-> 0, q_prop |-> 0, attempts |-> 0, returned |-> FALSE,
            accepted |-> FALSE, q_new |-> 0, l_new |-> NoLpoint,
            previous |-> NoLpoint]

(***************************************************************************)
(* SMC_ABC.__init__ (lines 138-223) and the arguments of the run.          *)
(***************************************************************************)
\* the tolerances a caller puts in a fixed schedule, in units of 1/200: 1.0
ScheduleValues == {200}

\* the floors a run is configured with: minimum_eps=0.75
FloorValues == {150}

RECURSIVE SeqsUpTo(_, _)
SeqsUpTo(S, n) ==
    IF n = 0 THEN {<<>>}
    ELSE LET shorter == SeqsUpTo(S, n - 1)
         IN  shorter \cup {Append(s, x) : s \in shorter, x \in S}

\* the epsilons argument: None, or a list the caller owns
EpsilonsArgs ==
    {[none |-> TRUE, list |-> <<>>]}
        \cup {[none |-> FALSE, list |-> l] : l \in SeqsUpTo(ScheduleValues, MaxSchedule)}

\* lines 194-198: the caller's list gets minimum_eps appended
InitEpsilons(arg, floor) ==
    IF arg.none THEN arg ELSE [arg EXCEPT !.list = Append(@, floor)]

\* the fields __init__ sets whatever its arguments, and the locals of a run
\* not yet started
FreshFields ==
    /\ err = ""
    /\ epsilon = ToleranceAtConstruction
    /\ tolerance = ToleranceAtConstruction
    /\ population = Zeros(1)
    /\ array_population = Zeros(Chains)
    /\ likelihoods = Zeros(Chains)
    /\ covariance = [num |-> 1, den |-> 1]
    /\ proposal_dist = [num |-> 1, den |-> 1]
    /\ resampling_indexes = [i \in Idx(Chains) |-> i]
    /\ chain_previous_lpoint = [i \in Idx(Chains) |-> NoLpoint]
    /\ chain_index = 0
    /\ draws = 0
    /\ work = <<>>
    /\ mtrace = [i \in Idx(0) |-> NoLpoint]
    /\ unit = 0
    /\ draw = 0
    /\ point = 0
    /\ attempt = 0
    /\ traces = [i \in Idx(0) |-> [q |-> 0, llk |-> 0, n |-> 0]]
    /\ offset = 0

\* with them, the stage __init__ sets (line 204) and no astep call made yet
Fresh ==
    /\ FreshFields
    /\ stage = 0
    /\ frame = NoFrame

\* SMC_ABC(...) is called: epsilons is the caller's list as the caller built
\* it, and the model has one continuous variable
Init ==
    /\ pc = "construct"
    /\ unbound = {"array_population", "weights", "chain_previous_lpoint",
                  "mtrace", "sample_args"}
    /\ minimum_eps \in FloorValues
    /\ epsilons \in EpsilonsArgs
    /\ n_steps \in 0 .. MaxNSteps
    /\ weights = Zeros(Chains)
    /\ all_discrete = FALSE
    /\ Fresh

\* the run ends with exception e
Raise(e) ==
    /\ pc' = "error"
    /\ err' = e


\* __init__ has run: step.epsilons is the caller's list, which line 197 has
\* appended to
Construct ==
    /\ pc = "construct"
    /\ epsilons' = InitEpsilons(epsilons, minimum_eps)
    /\ pc' = "start"
    /\ UNCHANGED <<err, unbound, draws, mtrace, offset, all_discrete>>
    /\ UNCHANGED <<minimum_eps, n_steps, stage, epsilon, tolerance,
                   population, array_population, likelihoods, weights,
                   covariance, proposal_dist, resampling_indexes,
                   chain_previous_lpoint, chain_index>>
    /\ UNCHANGED unitVars

(***************************************************************************)
(* sample_smc_abc up to the stage loop (lines 451-514).                    *)
(***************************************************************************)
\* a variant that makes one prior draw per requested sample
InitialPopulationsOfSamples == [Idx(Chains + SamplesBeyond) -> Support]

\* _initial_population (lines 593-610): one prior draw per chain
InitialPopulations == [Idx(Chains) -> Support]

StartFrom(pops) ==
    /\ pc = "start"
    /\ \E pop \in pops :
          LET e == CalcEpsilon(epsilons, pop, IqrScaleHalves, 0)
          IN  /\ population' = pop
              /\ stage' = 0
              /\ draws' = 1
              /\ IF e.err # ""
                 THEN Raise(e.err) /\ epsilon' = epsilon
                 ELSE pc' = "loop" /\ err' = err /\ epsilon' = e.val
    /\ UNCHANGED <<unbound, epsilons, minimum_eps, n_steps, tolerance,
                   array_population, likelihoods, weights, covariance,
                   proposal_dist, resampling_indexes, chain_previous_lpoint,
                   chain_index, mtrace, offset, all_discrete>>
    /\ UNCHANGED unitVars

Start == StartFrom(InitialPopulations)

(***************************************************************************)
(* The stage loop (lines 519-541) and _iter_parallel_chains (732-769).     *)
(***************************************************************************)
\* variants of the loop test: against the tolerance set at construction, and
\* against zero
LoopRunsAboveOne(eps, floor) == eps > ToleranceAtConstruction

LoopRunsWhilePositive(eps, floor) == eps > 0

\* the test of the while loop (line 519)
LoopRuns(eps, floor) == eps > floor

\* draws of a stage (lines 521-526)
DrawsOf(stg, n) == IF stg = 0 THEN 1 ELSE n

\* range(chains), the x_chains of a stage (lines 737-738)
RangeChains == [i \in Idx(Chains) |-> i]

\* a variant that starts each unit from the position of its own chain number
BuildWorkUnresampled(xc, pop, ri) ==
    [u \in 1 .. Size(xc) |-> [start |-> pop[xc[u - 1]], chain |-> xc[u - 1]]]

\* the work list (lines 748-756), in the order the pool runs it: each unit
\* starts from the position of the ancestor of its chain
BuildWork(xc, pop, ri) ==
    [u \in 1 .. Size(xc) |-> [start |-> pop[ri[xc[u - 1]]], chain |-> xc[u - 1]]]

NoTraces(n) == [u \in Idx(n) |-> [q |-> 0, llk |-> 0, n |-> 0]]

\* _iter_parallel_chains is entered with the work list built
EnterSampling(xc) ==
    /\ work' = BuildWork(xc, population, resampling_indexes)
    /\ unit' = 0
    /\ draw' = 0
    /\ attempt' = 0
    /\ point' = point
    /\ traces' = NoTraces(Size(xc))
    /\ frame' = frame
    /\ pc' = "sample"

\* _iter_parallel_chains has returned: the locals of the units are gone, the
\* trace files stay
LeaveSampling ==
    /\ frame' = NoFrame
    /\ UNCHANGED <<work, unit, draw, point, attempt, traces>>

BeginStage ==
    /\ pc = "loop"
    /\ LoopRuns(epsilon, minimum_eps)
    /\ stage <= MaxStage
    /\ draws' = DrawsOf(stage, n_steps)
    /\ unbound' = unbound \ {"sample_args"}
    /\ EnterSampling(RangeChains)
    /\ UNCHANGED <<err, mtrace, offset, all_discrete>>
    /\ UNCHANGED stepVars

EndLoop ==
    /\ pc = "loop"
    /\ ~LoopRuns(epsilon, minimum_eps)
    /\ pc' = "final"
    /\ UNCHANGED <<err, unbound, draws, mtrace, offset, all_discrete>>
    /\ UNCHANGED stepVars
    /\ UNCHANGED unitVars

(***************************************************************************)
(* One work unit: _iter_sample (lines 686-712) and SMC_ABC.astep (225-259).*)
(***************************************************************************)
\* the position the next astep of the running unit starts from
Q0 == IF draw = 0 THEN Head(work).start ELSE point

\* line 693
DrawsError ==
    /\ pc = "sample"
    /\ draws < 1
    /\ Raise("ValueError")
    /\ UNCHANGED <<unbound, draws, mtrace, offset, all_discrete>>
    /\ UNCHANGED stepVars
    /\ UNCHANGED unitVars

\* a variant of the drain loop that returns with one unit still to run
PoolDrainedEarly(rest) == Len(rest) <= 1

\* the loop `for _ in p: pass` (lines 768-769) ends when the pool has run
\* every unit of the work list
PoolDrained(rest) == rest = <<>>

\* astep has returned (q_new, l_new): the point moves, the trace records
\* l_new (lines 710-711), and the unit (its point gone with it) or the whole
\* pass may be over
Recorded(q_new, l_new) ==
    /\ point' = IF draw + 1 < draws THEN q_new ELSE 0
    /\ traces' = [traces EXCEPT
                    ![unit] = [q |-> l_new.q, llk |-> l_new.llk, n |-> draw + 1]]
    /\ attempt' = 0
    /\ IF draw + 1 < draws
       THEN /\ draw' = draw + 1
            /\ unit' = unit
            /\ work' = work
            /\ pc' = "sample"
       ELSE /\ draw' = 0
            /\ unit' = unit + 1
            /\ work' = Tail(work)
            /\ pc' = IF ~PoolDrained(Tail(work)) THEN "sample"
                     ELSE IF stage = -1 THEN "dump" ELSE "load"

\* a variant of the branch that also sends the final stage to the evaluation
IsInitialOrFinalStage(stg) == stg <= 0

\* the branch of line 238
IsInitialStage(stg) == stg = 0

\* stage 0 (lines 238-241): one evaluation at q0, no proposal
Evaluate ==
    /\ pc = "sample"
    /\ draws >= 1
    /\ IsInitialStage(stage)
    /\ LET l_new == LogpForw(Q0)
       IN  /\ frame' = [NoFrame EXCEPT
                          !.q0 = Q0, !.q_prop = Q0, !.returned = TRUE,
                          !.q_new = Q0, !.l_new = l_new,
                          !.previous = chain_previous_lpoint[Head(work).chain]]
           /\ Recorded(Q0, l_new)
    /\ chain_index' = Head(work).chain
    /\ UNCHANGED <<err, unbound, draws, mtrace, offset, all_discrete>>
    /\ UNCHANGED <<epsilons, minimum_eps, n_steps, stage, epsilon,
                   tolerance, population, array_population, likelihoods,
                   weights, covariance, proposal_dist, resampling_indexes,
                   chain_previous_lpoint>>

\* the test of line 249: the candidate is taken
Accepts(q_prop, dist, eps) == IsFinite(q_prop)

\* a variant that reads the record of chain 0 whatever the chain
RejectedLpointOfFirstChain(cpl, idx) == cpl[0]

\* the record a rejected attempt leaves in l_new (line 258)
RejectedLpoint(cpl, idx) == cpl[idx]

\* a variant of the loop without the break of line 255
LoopEndsWithBudget(accepted, made) == made >= AttemptBudget

\* the for loop of line 243 is left: by the break of line 255, or with the
\* budget used up
LoopEnds(accepted, made) == accepted \/ made >= AttemptBudget

\* one pass of the for loop of lines 243-258; when it is the last, astep
\* returns and the draw is recorded
Attempt ==
    /\ pc = "sample"
    /\ draws >= 1
    /\ ~IsInitialStage(stage)
    /\ \E p \in Proposal :
          LET chain == Head(work).chain
              q_prop == Q0 + p.delta
              accepted == Accepts(q_prop, Distance(q_prop), epsilon)
              previous == chain_previous_lpoint[chain]
              q_new == IF accepted THEN q_prop ELSE Q0
              l_new == IF accepted THEN LogpForw(q_prop)
                       ELSE RejectedLpoint(chain_previous_lpoint, chain)
              ends == LoopEnds(accepted, attempt + 1)
          IN  /\ chain_previous_lpoint' =
                    IF accepted
                    THEN [chain_previous_lpoint EXCEPT ![chain] = l_new]
                    ELSE chain_previous_lpoint
              /\ frame' = [q0 |-> Q0, q_prop |-> q_prop,
                           attempts |-> attempt + 1, returned |-> ends,
                           accepted |-> accepted, q_new |-> q_new,
                           l_new |-> l_new, previous |-> previous]
              /\ IF ends
                 THEN Recorded(q_new, l_new)
                 ELSE /\ attempt' = attempt + 1
                      /\ pc' = pc
                      /\ UNCHANGED <<work, unit, draw, point, traces>>
    /\ chain_index' = Head(work).chain
    /\ UNCHANGED <<err, unbound, draws, mtrace, offset, all_discrete>>
    /\ UNCHANGED <<epsilons, minimum_eps, n_steps, stage, epsilon,
                   tolerance, population, array_population, likelihoods,
                   weights, covariance, proposal_dist, resampling_indexes>>


(***************************************************************************)
(* The end of a stage (lines 543-564).                                     *)
(***************************************************************************)
\* load_multitrace (line 543): the last record of every chain's trace
LoadMultitrace(tr) == [u \in DOMAIN tr |-> [q |-> tr[u].q, llk |-> tr[u].llk]]

\* SMC_ABC.select_end_points (lines 295-329)
SelectEndPoints(mt) ==
    [population |-> [c \in DOMAIN mt |-> mt[c].q],
     array_population |-> [c \in DOMAIN mt |-> mt[c].q],
     likelihoods |-> [c \in DOMAIN mt |-> mt[c].llk]]

LoadEndPoints ==
    /\ pc = "load"
    /\ LET mt == LoadMultitrace(traces)
           ends == SelectEndPoints(mt)
       IN  /\ mtrace' = mt
           /\ population' = ends.population
           /\ array_population' = ends.array_population
           /\ likelihoods' = ends.likelihoods
    /\ unbound' = unbound \ {"mtrace", "array_population"}
    /\ pc' = "calc_beta"
    /\ LeaveSampling
    /\ UNCHANGED <<err, draws, offset, all_discrete>>
    /\ UNCHANGED <<epsilons, minimum_eps, n_steps, stage, epsilon,
                   tolerance, weights, covariance, proposal_dist,
                   resampling_indexes, chain_previous_lpoint, chain_index>>

\* lines 271-273: the likelihoods calc_beta leaves in step.likelihoods, which
\* are the un-normalised weights
BetaLikelihoods(lk) == [i \in DOMAIN lk |-> 1]

\* SMC_ABC.calc_beta (lines 261-280) and the assignment of line 548
CalcBeta ==
    /\ pc = "calc_beta"
    /\ LET e == CalcEpsilon(epsilons, population, IqrScaleHalves, stage)
       IN  IF e.err # ""
           THEN /\ Raise(e.err)
                /\ UNCHANGED <<epsilon, weights, unbound>>
           ELSE /\ pc' = "branch"
                /\ err' = err
                /\ epsilon' = e.val
                /\ weights' = BetaLikelihoods(likelihoods)
                /\ unbound' = unbound \ {"weights"}
    /\ likelihoods' = BetaLikelihoods(likelihoods)
    /\ UNCHANGED <<draws, mtrace, offset, all_discrete>>
    /\ UNCHANGED <<epsilons, minimum_eps, n_steps, stage, tolerance,
                   population, array_population, covariance, proposal_dist,
                   resampling_indexes, chain_previous_lpoint, chain_index>>
    /\ UNCHANGED unitVars

\* the test of line 550
BelowFloor(eps, floor) == eps < floor

\* lines 550-556
EpsilonBelowFloor ==
    /\ pc = "branch"
    /\ BelowFloor(epsilon, minimum_eps)
    /\ pc' = "loop"
    /\ UNCHANGED <<err, unbound, draws, mtrace, offset, all_discrete>>
    /\ UNCHANGED stepVars
    /\ UNCHANGED unitVars

\* step.covariance = step.calc_covariance() (lines 558 and 572)
CovarianceStep(next) ==
    /\ LET c == CalcCovariance(array_population, weights)
       IN  IF "array_population" \in unbound
           THEN Raise("AttributeError") /\ covariance' = covariance
           ELSE IF c.err # ""
                THEN Raise(c.err) /\ covariance' = covariance
                ELSE /\ pc' = next
                     /\ err' = err
                     /\ covariance' = [num |-> c.num, den |-> c.den]
    /\ UNCHANGED <<unbound, draws, mtrace, offset, all_discrete>>
    /\ UNCHANGED <<epsilons, minimum_eps, n_steps, stage, epsilon,
                   tolerance, population, array_population, likelihoods,
                   weights, proposal_dist, resampling_indexes,
                   chain_previous_lpoint, chain_index>>
    /\ UNCHANGED unitVars

\* choose_proposal (lines 559 and 573): the Cholesky factorisation of line 49
\* needs a positive definite matrix
ProposalStep(next) ==
    /\ IF covariance.num <= 0
       THEN Raise("LinAlgError") /\ proposal_dist' = proposal_dist
       ELSE /\ pc' = next
            /\ err' = err
            /\ proposal_dist' = covariance
    /\ UNCHANGED <<unbound, draws, mtrace, offset, all_discrete>>
    /\ UNCHANGED <<epsilons, minimum_eps, n_steps, stage, epsilon,
                   tolerance, population, array_population, likelihoods,
                   weights, covariance, resampling_indexes,
                   chain_previous_lpoint, chain_index>>
    /\ UNCHANGED unitVars

\* step.resampling_indexes = step.resample() (lines 560 and 574), the offset
\* np.random.rand() being un / OffsetSteps
ResampleStep(next) ==
    /\ \E un \in 0 .. (OffsetSteps - 1) :
          LET r == Resample(weights, un)
          IN  /\ offset' = un
              /\ IF r.err # ""
                 THEN Raise(r.err) /\ resampling_indexes' = resampling_indexes
                 ELSE /\ pc' = next
                      /\ err' = err
                      /\ resampling_indexes' = r.outindx
    /\ UNCHANGED <<unbound, draws, mtrace, all_discrete>>
    /\ UNCHANGED <<epsilons, minimum_eps, n_steps, stage, epsilon,
                   tolerance, population, array_population, likelihoods,
                   weights, covariance, proposal_dist, chain_previous_lpoint,
                   chain_index>>
    /\ UNCHANGED unitVars

\* a variant that takes the rows in the order of the trace
GetChainPreviousLpointUnresampled(mt, ri) == [c \in DOMAIN ri |-> mt[c]]

\* SMC_ABC.get_chain_previous_lpoint (lines 331-351)
GetChainPreviousLpoint(mt, ri) == [c \in DOMAIN ri |-> mt[ri[c]]]

\* lines 561 and 575
PreviousStep(next) ==
    /\ IF "mtrace" \in unbound
       THEN /\ Raise("NameError")
            /\ UNCHANGED <<chain_previous_lpoint, unbound>>
       ELSE /\ pc' = next
            /\ err' = err
            /\ chain_previous_lpoint' =
                   GetChainPreviousLpoint(mtrace, resampling_indexes)
            /\ unbound' = unbound \ {"chain_previous_lpoint"}
    /\ offset' = 0
    /\ UNCHANGED <<draws, mtrace, all_discrete>>
    /\ UNCHANGED <<epsilons, minimum_eps, n_steps, stage, epsilon,
                   tolerance, population, array_population, likelihoods,
                   weights, covariance, proposal_dist, resampling_indexes,
                   chain_index>>
    /\ UNCHANGED unitVars

StageCovariance ==
    /\ pc = "branch"
    /\ ~BelowFloor(epsilon, minimum_eps)
    /\ CovarianceStep("proposal")

StageProposal == pc = "proposal" /\ ProposalStep("resample")

StageResample == pc = "resample" /\ ResampleStep("previous")

StagePrevious == pc = "previous" /\ PreviousStep("increment")

\* lines 562-564
IncrementStage ==
    /\ pc = "increment"
    /\ stage' = stage + 1
    /\ pc' = "loop"
    /\ UNCHANGED <<err, unbound, draws, mtrace, offset, all_discrete>>
    /\ UNCHANGED <<epsilons, minimum_eps, n_steps, epsilon,
                   tolerance, population, array_population, likelihoods,
                   weights, covariance, proposal_dist, resampling_indexes,
                   chain_previous_lpoint, chain_index>>
    /\ UNCHANGED unitVars

(***************************************************************************)
(* The final stage (lines 566-590).                                        *)
(***************************************************************************)
\* lines 567-571
FinalStage ==
    /\ pc = "final"
    /\ stage' = -1
    /\ weights' = likelihoods
    /\ unbound' = unbound \ {"weights"}
    /\ pc' = "final_covariance"
    /\ UNCHANGED <<err, draws, mtrace, offset, all_discrete>>
    /\ UNCHANGED <<epsilons, minimum_eps, n_steps, epsilon,
                   tolerance, population, array_population, likelihoods,
                   covariance, proposal_dist, resampling_indexes,
                   chain_previous_lpoint, chain_index>>
    /\ UNCHANGED unitVars

FinalCovariance == pc = "final_covariance" /\ CovarianceStep("final_proposal")

FinalProposal == pc = "final_proposal" /\ ProposalStep("final_resample")

FinalResample == pc = "final_resample" /\ ResampleStep("final_previous")

FinalPrevious == pc = "final_previous" /\ PreviousStep("final_draw")

\* nr.randint(0, chains, size=samples) (line 578)
FinalChains(n) == [Idx(n) -> Idx(Chains)]

\* lines 578-584; the argument samples is first read here, and is drawn here
\* from counts
FinalSamplingOf(counts) ==
    /\ pc = "final_draw"
    /\ IF "sample_args" \in unbound
       THEN /\ Raise("NameError")
            /\ UNCHANGED draws
            /\ UNCHANGED unitVars
       ELSE /\ err' = err
            /\ draws' = n_steps
            /\ \E samples \in counts :
                  \E xc \in FinalChains(samples) : EnterSampling(xc)
    /\ UNCHANGED <<unbound, mtrace, offset, all_discrete>>
    /\ UNCHANGED stepVars

FinalSampling == FinalSamplingOf(1 .. MaxSamples)

\* lines 586-590
Return ==
    /\ pc = "dump"
    /\ pc' = "done"
    /\ LeaveSampling
    /\ UNCHANGED <<err, unbound, draws, mtrace, offset, all_discrete>>
    /\ UNCHANGED stepVars

Next ==
    \/ Construct
    \/ Start
    \/ BeginStage
    \/ EndLoop
    \/ DrawsError
    \/ Evaluate
    \/ Attempt
    \/ LoadEndPoints
    \/ CalcBeta
    \/ EpsilonBelowFloor
    \/ StageCovariance
    \/ StageProposal
    \/ StageResample
    \/ StagePrevious
    \/ IncrementStage
    \/ FinalStage
    \/ FinalCovariance
    \/ FinalProposal
    \/ FinalResample
    \/ FinalPrevious
    \/ FinalSampling
    \/ Return

Spec == Init /\ [][Next]_vars

(***************************************************************************)
(* SMC_ABC.resample on its own: step.weights is any weight vector with a   *)
(* positive sum, and resample() is called once.                            *)
(***************************************************************************)
\* the weight vectors resample is called on, as numerators over their sum
WeightVectors == {w \in [Idx(Chains) -> 0 .. MaxWeight] : Sum(w) > 0}

ResampleInit ==
    /\ pc = "resample_call"
    /\ unbound = {"array_population", "chain_previous_lpoint", "mtrace",
                  "sample_args"}
    /\ minimum_eps \in FloorValues
    /\ epsilons = [none |-> TRUE, list |-> <<>>]
    /\ n_steps = 0
    /\ weights \in WeightVectors
    /\ all_discrete = FALSE
    /\ Fresh

\* step.resample() (lines 362-392)
ResampleCall ==
    /\ pc = "resample_call"
    /\ ResampleStep("resample_done")

ResampleNext == ResampleCall

SpecResample == ResampleInit /\ [][ResampleNext]_vars

(***************************************************************************)
(* SMC_ABC.astep on its own, up to the candidate: the step is in a stage   *)
(* other than 0, its model has only discrete or only continuous variables, *)
(* and astep is called once at q0.  Positions are in units of 1/Grain.     *)
(***************************************************************************)
\* the values proposal_dist(1)[0,0] can take (lines 51-54: the Cholesky
\* factor times a standard normal draw)
KernelDeltas == (-MaxDelta .. MaxDelta) \ {0}

\* the perturbation astep adds to q0 when the proposal has drawn d (lines
\* 244-245): step.all_discrete is not consulted
Perturbation(disc, d) == d

\* the points astep is called at: whole numbers for a discrete model
KernelStarts(disc) == {q \in 0 .. Grain * MaxPos : disc => q % Grain = 0}

KernelInit ==
    /\ pc = "astep_call"
    /\ unbound = {"array_population", "weights", "chain_previous_lpoint",
                  "mtrace", "sample_args"}
    /\ minimum_eps \in FloorValues
    /\ epsilons = [none |-> TRUE, list |-> <<>>]
    /\ n_steps = 1
    /\ weights = Zeros(Chains)
    /\ all_discrete \in BOOLEAN
    /\ stage \in {-1} \cup (1 .. MaxStage)
    /\ frame \in {[NoFrame EXCEPT !.q0 = q] : q \in KernelStarts(all_discrete)}
    /\ FreshFields

\* the first pass of the for loop up to line 245
ProposeCandidate ==
    /\ pc = "astep_call"
    /\ ~IsInitialStage(stage)
    /\ \E d \in KernelDeltas :
          frame' = [frame EXCEPT
                      !.q_prop = frame.q0 + Perturbation(all_discrete, d),
                      !.attempts = 1]
    /\ pc' = "astep_candidate"
    /\ UNCHANGED <<err, unbound, draws, mtrace, offset, all_discrete>>
    /\ UNCHANGED stepVars
    /\ UNCHANGED <<work, unit, draw, point, attempt, traces>>

KernelNext == ProposeCandidate

SpecKernel == KernelInit /\ [][KernelNext]_vars

(***************************************************************************)
(* A run in adaptive mode whose final stage is asked for more samples      *)
(* than there are chains.                                                  *)
(***************************************************************************)
\* the argument samples of sample_smc_abc (line 578)
ManySamples == Chains + SamplesBeyond

ManyInit ==
    /\ Init
    /\ epsilons.none
    /\ n_steps = 1

ManyFinalSampling == FinalSamplingOf({ManySamples})

ManyNext ==
    \/ Construct
    \/ Start
    \/ BeginStage
    \/ EndLoop
    \/ Evaluate
    \/ Attempt
    \/ LoadEndPoints
    \/ CalcBeta
    \/ EpsilonBelowFloor
    \/ StageCovariance
    \/ StageProposal
    \/ StageResample
    \/ StagePrevious
    \/ IncrementStage
    \/ FinalStage
    \/ FinalCovariance
    \/ FinalProposal
    \/ FinalResample
    \/ FinalPrevious
    \/ ManyFinalSampling
    \/ Return

SpecManySamples == ManyInit /\ [][ManyNext]_vars

(***************************************************************************)
(* Properties of the stage loop.                                           *)
(***************************************************************************)
\* the places of the final stage before its sampling pass
FinalPlaces == {"final_covariance", "final_proposal", "final_resample",
                "final_previous", "final_draw"}

\* the places of step (d) of a stage: covariance, proposal, resampling,
\* previous records, stage increment
StepDPlaces == {"proposal", "resample", "previous", "increment"}

\* C1: the final stage (stage = -1) is entered only from a state whose
\* epsilon is <= step.minimum_eps, and while epsilon > minimum_eps the loop
\* test sends the run to another sampling pass, never to the final stage.
C1_FinalOnlyAtFloor ==
    [][ /\ (pc' = "final" /\ pc # "final" => epsilon <= minimum_eps)
        /\ (stage' = -1 /\ stage # -1 => epsilon <= minimum_eps)
        /\ (pc = "loop" /\ epsilon > minimum_eps
               => pc' = "sample" /\ stage' = stage /\ stage' # -1) ]_vars

\* the final stage has been entered after a stage loop that ran
C1_Witness ==
    /\ pc = "final_covariance"
    /\ stage = -1
    /\ epsilon <= minimum_eps
    /\ "mtrace" \notin unbound

\* C2: when calc_beta leaves an epsilon below the floor, the stage ends
\* without step (d), the loop test fails at once, and the only sampling pass
\* that can follow is the one of the final stage.
C2_BelowFloorEndsLoop ==
    [][ /\ (pc = "branch" /\ epsilon < minimum_eps
               => pc' = "loop" /\ stage' = stage /\ epsilon' = epsilon)
        /\ (pc = "loop" /\ epsilon < minimum_eps
               => pc' = "final" /\ stage' = stage /\ epsilon' = epsilon)
        /\ (pc' = "sample" /\ epsilon' < minimum_eps => stage' = -1) ]_vars

\* the final sampling pass has run to its end after calc_beta left an
\* epsilon below the floor
C2_Witness ==
    /\ pc = "dump"
    /\ stage = -1
    /\ epsilon < minimum_eps
    /\ "weights" \notin unbound
    /\ work = <<>>

\* C3: with the epsilon of calc_beta <= the floor (equality included), no
\* part of step (d) runs: the run is never at the proposal rebuild, the
\* resampling, the previous records or the stage increment of a stage.
C3_NoStepDAtFloor ==
    pc \in StepDPlaces => epsilon > minimum_eps

\* C4: once sample_smc_abc has set the initial epsilon, every later
\* assignment leaves it equal or smaller.
C4_EpsilonNonIncreasing ==
    [][pc # "start" => epsilon' <= epsilon]_vars

\* C5: the final stage is reached only after a stage iteration has produced
\* a trace, the end points of the population, and weights.
C5_StageZeroBeforeFinal ==
    pc \in FinalPlaces \cup {"final"} =>
        /\ "mtrace" \notin unbound
        /\ "array_population" \notin unbound
        /\ "sample_args" \notin unbound

(***************************************************************************)
(* Properties of the mutation step astep.                                  *)
(***************************************************************************)
\* the latest astep call went through the for loop of line 243
Mutated == frame.attempts >= 1

\* C6: in a stage other than 0, a candidate with a finite prior evaluation
\* is taken if and only if its distance to the observation is strictly
\* below the current epsilon.
C6_AcceptIffClose ==
    (Mutated /\ IsFinite(frame.q_prop)) =>
        (frame.accepted <=> Distance(frame.q_prop) < epsilon)

\* C7: when astep returns with every attempt rejected, it returns q0 and
\* the record chain_previous_lpoint held for the chain of the unit, and the
\* run carries no error.
C7_RejectedKeepsPoint ==
    (Mutated /\ frame.returned /\ ~frame.accepted) =>
        /\ frame.q_new = frame.q0
        /\ frame.l_new = frame.previous
        /\ chain_previous_lpoint[chain_index] = frame.previous
        /\ err = ""

\* a unit of chain 1 has used its whole budget without an acceptance, the
\* records of the two chains being different
C7_Witness ==
    /\ Mutated
    /\ frame.returned
    /\ ~frame.accepted
    /\ frame.attempts = AttemptBudget
    /\ chain_index = 1
    /\ chain_previous_lpoint[0] # chain_previous_lpoint[1]

\* C8: astep leaves its loop at the first candidate taken and returns that
\* candidate; while the loop goes on every attempt so far was rejected; and
\* the loop makes at most AttemptBudget passes.
C8_FirstAcceptedWins ==
    /\ frame.attempts <= AttemptBudget
    /\ attempt < AttemptBudget
    /\ frame.accepted =>
          /\ frame.returned
          /\ frame.q_new = frame.q_prop
          /\ frame.l_new = LogpForw(frame.q_prop)
          /\ attempt = 0
    /\ attempt > 0 =>
          /\ frame.attempts = attempt
          /\ ~frame.accepted
          /\ ~frame.returned
    /\ (Mutated /\ frame.returned) =>
          frame.accepted \/ frame.attempts = AttemptBudget

\* a candidate has been taken after an earlier one of the same call was
\* rejected
C8_Witness ==
    /\ frame.accepted
    /\ frame.returned
    /\ frame.attempts > 1
    /\ frame.q_new # frame.q0

\* C9: in stage 0 every unit records one evaluation at its start position,
\* with no proposal drawn; in every other stage, the final one included, an
\* astep call goes through the proposal loop.
C9_StageZeroEvaluatesOnce ==
    /\ (stage = 0 /\ pc \in {"sample", "load"}) =>
          /\ draws = 1
          /\ ~Mutated
          /\ frame.returned => frame.q_new = frame.q0
          /\ \A u \in DOMAIN traces :
                /\ traces[u].n = IF u < unit THEN 1 ELSE 0
                /\ u < unit => traces[u].q = population[u]
          /\ pc = "load" => unit = Chains
    /\ (stage # 0 /\ frame.returned) => Mutated

\* stage 0 is over: every chain has one record, at its start position
C9_Witness ==
    /\ stage = 0
    /\ pc = "load"
    /\ frame.returned
    /\ \A u \in DOMAIN traces : traces[u].n = 1
    /\ \E u \in DOMAIN traces : traces[u].q # 0

(***************************************************************************)
(* Properties of resample.                                                 *)
(***************************************************************************)
\* the first index whose cumulative weight is strictly above the target
\* (i + un / OffsetSteps) / Size(w); Size(w) when there is none
FirstAbove(w, un, i) ==
    LET above == {j \in DOMAIN w :
                     CumSum(w)[j] * Size(w) * OffsetSteps
                         > (i * OffsetSteps + un) * Sum(w)}
    IN  IF above = {} THEN Size(w)
        ELSE CHOOSE j \in above : \A k \in above : j <= k

\* C10: the indexes resample has just returned are, for some offset, in
\* every slot i the first index whose cumulative weight is strictly above
\* the target (i + u) / chains.
C10_FirstStrictlyAbove ==
    pc \in {"previous", "final_previous"} =>
        \E un \in 0 .. (OffsetSteps - 1) :
            \A i \in DOMAIN resampling_indexes :
                resampling_indexes[i] = FirstAbove(weights, un, i)

\* all the weight is on index k
Concentrated(w, k) ==
    /\ w[k] > 0
    /\ \A j \in DOMAIN w : j # k => w[j] = 0

\* C11: with all the weight on one index k, resample returns k in every
\* slot, whatever k and whatever the offset, 0 included.
C11_ConcentratedWeight ==
    pc = "resample_done" =>
        \A k \in DOMAIN weights :
            Concentrated(weights, k) =>
                \A i \in DOMAIN resampling_indexes : resampling_indexes[i] = k

\* the orderings of the chains
Orderings ==
    {p \in [Idx(Chains) -> Idx(Chains)] :
        \A a, b \in Idx(Chains) : a # b => p[a] # p[b]}

\* the weight vector with the weight of chain p[i] at position i
Permuted(w, p) == [i \in DOMAIN w |-> w[p[i]]]

\* the number of slots of outindx holding index j
Offspring(outindx, j) == Cardinality({i \in DOMAIN outindx : outindx[i] = j})

\* no target (i + u) / chains is equal to a cumulative weight
NoTies(w, un) ==
    \A i, j \in DOMAIN w :
        (i * OffsetSteps + un) * Sum(w) # CumSum(w)[j] * Size(w) * OffsetSteps

\* C12: with the offset fixed and the weights all positive, all different
\* and with no target equal to a cumulative weight, a chain gets the same
\* number of offspring from resample whatever the position its weight has
\* in the weight vector.
C12_OrderInvariant ==
    (pc = "resample_done"
        /\ (\A a \in DOMAIN weights : weights[a] > 0)
        /\ (\A a, b \in DOMAIN weights : a # b => weights[a] # weights[b])
        /\ (\A q \in Orderings : NoTies(Permuted(weights, q), offset))) =>
        \A p \in Orderings :
            \A i \in DOMAIN weights :
                Offspring(Resample(Permuted(weights, p), offset).outindx, i)
                    = Offspring(resampling_indexes, p[i])

(***************************************************************************)
(* Properties of the order of a stage iteration.                           *)
(***************************************************************************)
\* the assignments of lines 558-561 done so far in the running iteration
DoneInStage ==
    CASE pc = "proposal" -> {"covariance"}
      [] pc = "resample" -> {"covariance", "proposal"}
      [] pc = "previous" -> {"covariance", "proposal", "resample"}
      [] pc = "increment" -> {"covariance", "proposal", "resample", "previous"}
      [] OTHER -> {}

\* C13: in a stage iteration the covariance is re-estimated, and the
\* proposal rebuilt, only once the resampling of that iteration is done.
C13_CovarianceAfterResample ==
    /\ "covariance" \in DoneInStage => "resample" \in DoneInStage
    /\ "proposal" \in DoneInStage => "resample" \in DoneInStage

C15_OwnRecordOnRejection ==
    (stage # 0 /\ draws = 1 /\ Mutated /\ frame.returned /\ ~frame.accepted) =>
        frame.l_new = mtrace[resampling_indexes[chain_index]]

\* C16: a step of a work unit (a pass of astep's loop, or the evaluation of
\* stage 0) leaves the fields of the shared step unchanged.
C16_UnitsReadOnly ==
    [][pc = "sample" =>
          UNCHANGED <<population, covariance, proposal_dist,
                      chain_previous_lpoint, chain_index>>]_vars

(***************************************************************************)
(* Properties of the weights and of the resampled state.                   *)
(***************************************************************************)
\* C17: of two chains, the one whose recorded term (the likelihood entry of
\* its end point) is larger has the larger weight after calc_beta.
C17_WeightsFollowTerms ==
    (pc = "branch" /\ stage >= 1) =>
        \A a, b \in DOMAIN weights :
            mtrace[a].llk > mtrace[b].llk => weights[a] > weights[b]

\* C18: once a stage (or the final stage) has resampled and stored the
\* previous records, the record of every slot c is the end point of the
\* ancestor resampling_indexes[c] just computed, which is also the
\* position population[resampling_indexes[c]] the next pass starts the
\* chain from.
C18_SameAncestor ==
    /\ pc \in {"increment", "final_draw"} =>
          \A c \in DOMAIN resampling_indexes :
              /\ chain_previous_lpoint[c] = mtrace[resampling_indexes[c]]
              /\ chain_previous_lpoint[c].q = population[resampling_indexes[c]]
    /\ (pc = "sample" /\ stage # 0 /\ unit = 0 /\ draw = 0 /\ attempt = 0) =>
          \A k \in 1 .. Len(work) :
              /\ work[k].start = population[resampling_indexes[work[k].chain]]
              /\ work[k].start = chain_previous_lpoint[work[k].chain].q

\* a stage has resampled slot 1 onto chain 0, whose end point differs from
\* the one of chain 1
C18_Witness ==
    /\ pc = "increment"
    /\ stage = 1
    /\ resampling_indexes[1] = 0
    /\ mtrace[0] # mtrace[1]
    /\ chain_previous_lpoint[1] = mtrace[0]

\* C19: the sequence of tolerances the caller supplies (the object the step
\* keeps as self.epsilons) has the same length and elements after every
\* step of the construction and of the run.
C19_EpsilonsUntouched == [][epsilons' = epsilons]_vars

\* C20: from the initialisation of the population on, it has exactly
\* `chains` entries, also while and after the final stage has sampled more
\* units than there are chains; the weights, once computed, and the
\* ancestor array have `chains` entries too, and every ancestor is the
\* number of a chain.
C20_PopulationLength ==
    /\ pc \notin {"construct", "start"} => DOMAIN population = Idx(Chains)
    /\ "weights" \notin unbound => DOMAIN weights = Idx(Chains)
    /\ DOMAIN resampling_indexes = Idx(Chains)
    /\ \A c \in DOMAIN resampling_indexes :
           resampling_indexes[c] \in Idx(Chains)

\* the final stage has sampled more units than there are chains
C20_Witness ==
    /\ pc = "dump"
    /\ stage = -1
    /\ Size(traces) = ManySamples
    /\ Size(traces) > Chains
    /\ Size(population) = Chains
    /\ Size(weights) = Chains

(***************************************************************************)
(* Properties of the errors, of the final stage and of the schedule.       *)
(***************************************************************************)
\* C21: when the run ends with the error of a non-positive n_steps, no work
\* unit of the run has been evaluated: no stage has been sampled and loaded.
C21_ConfigErrorBeforeWork ==
    err = "ValueError" => (stage = 0 /\ "mtrace" \in unbound)

C23_DiscreteDeltaIsInteger ==
    (pc = "astep_candidate" /\ all_discrete) =>
        (frame.q_prop - frame.q0) % Grain = 0

\* C24: while the units of a stage after stage 0 or of the final stage are
\* being sampled, the shared tolerance the model's likelihood reads is the
\* epsilon the orchestrator holds.
C24_TolerancePropagated ==
    (pc = "sample" /\ stage # 0) => tolerance = epsilon

\* C25: whatever the weights and the offset, resample ends without an index
\* error, and the array it returns has `chains` entries, all of them chain
\* numbers, in non-decreasing order, where chain i appears floor(chains * w_i)
\* or ceil(chains * w_i) times (w_i being weights[i] over the sum).
C25_OffspringNearExpected ==
    /\ err = ""
    /\ pc = "resample_done" =>
          /\ DOMAIN resampling_indexes = Idx(Chains)
          /\ \A s \in DOMAIN resampling_indexes :
                resampling_indexes[s] \in Idx(Chains)
          /\ \A s, t \in DOMAIN resampling_indexes :
                s <= t => resampling_indexes[s] <= resampling_indexes[t]
          /\ \A i \in DOMAIN weights :
                /\ Offspring(resampling_indexes, i) >=
                       (Chains * weights[i]) \div Sum(weights)
                /\ Offspring(resampling_indexes, i) <=
                       (Chains * weights[i] + Sum(weights) - 1) \div Sum(weights)

\* the run has a fixed schedule, stored with the floor appended, whose
\* caller-supplied values are all above the floor
FixedAboveFloor ==
    /\ ~epsilons.none
    /\ pc # "construct"
    /\ \A k \in 1 .. (Len(epsilons.list) - 1) : epsilons.list[k] > minimum_eps

\* C26: in such a run no read of the schedule is out of range; the epsilon
\* the scheduler returns in stage k is the element at index k of the stored
\* sequence (position k + 1 of the list here); and, the stored sequence
\* having n + 1 elements, the stages sampled in the loop are 0 .. n at most,
\* so that the final stage is entered after at most n + 1 iterations.
C26_FixedSchedule ==
    FixedAboveFloor =>
        /\ err # "IndexError"
        /\ pc = "branch" =>
              /\ stage + 1 \in DOMAIN epsilons.list
              /\ epsilon = epsilons.list[stage + 1]
        /\ (pc = "loop" /\ stage = 0) => epsilon = epsilons.list[1]
        /\ (pc = "loop" /\ stage >= 1) => epsilon = epsilons.list[stage]
        /\ (pc \in {"sample", "load", "calc_beta"} /\ stage # -1) =>
              stage + 1 <= Len(epsilons.list)
        /\ pc = "final" => stage <= Len(epsilons.list)

\* a schedule of one value above the floor has been used up: two iterations,
\* the second one at the floor, and the final stage is next
C26_Witness ==
    /\ FixedAboveFloor
    /\ Len(epsilons.list) = 2
    /\ pc = "final"
    /\ stage = 2
    /\ epsilon = minimum_eps

=============================================================================
